---------------------------- MODULE Spec2Model ----------------------------
(***************************************************************************)
(* Model of the AI logistics planner of src/server/services/ai.js.         *)
(*                                                                         *)
(* JavaScript Sets are modelled as duplicate-free sequences (a Set         *)
(* iterates in insertion order) and Maps as sequences of <<key, value>>    *)
(* entries (a Map iterates its entries in insertion order).                *)
(***************************************************************************)
EXTENDS Integers, Sequences, FiniteSets, TLC

VARIABLES
    pc,                                   \* position in the modelled function
    shape,                                \* layout of the owned stars (coords, ai.js:61)
    triangles,                            \* delaunay.triangles, flat array (ai.js:62)
    vertexIndexToTriangleIndices,         \* ai.js:64
    triangleIndexToVertexIndices,         \* ai.js:66
    vertexIndexToConnectedVertexIndices,  \* ai.js:81
    sharedCounts,                         \* trianglesWithTwoSharedVertices.length per triangle (ai.js:150)
    borderTriangles,                      \* borderTrianglesToTrianglesWithSharedVertices (ai.js:130)
    borderVertices,                       \* ai.js:158
    globals,                              \* bindings of the free identifiers (ai.js:204, ai.js:213)
    borderStarQueue,                      \* the heap's entries (ai.js:178)
    unmarkedVertices,                     \* ai.js:202
    logisticsGraph,                       \* ai.js:209
    item,                                 \* last dequeued entry (ai.js:211)
    nextConnection,                       \* result of the last search (ai.js:214)
    startingVertex,                       \* argument of the last search (ai.js:229)
    thrown,                               \* the exception that ended the function, if any
    prev,                                 \* unmarked/graph/queue before the last step
    nearestEnemy,                         \* distanceToClosesEnemyStar per owned star (ai.js:185)
    carrierLoops,                         \* ai.js:92, ai.js:96
    player,                               \* the player's fields that play reads and writes
    game,                                 \* game.state.tick, productionTicks (ai.js:31)
    history                               \* what the calls of play have done so far

vars == << pc, shape, triangles, vertexIndexToTriangleIndices,
           triangleIndexToVertexIndices, vertexIndexToConnectedVertexIndices,
           sharedCounts, borderTriangles, borderVertices, globals,
           borderStarQueue, unmarkedVertices, logisticsGraph, item,
           nextConnection, startingVertex, thrown, prev,
           nearestEnemy, carrierLoops, player, game, history >>

playVars == << nearestEnemy, carrierLoops, player, game, history >>

----------------------------------------------------------------------------
(* Bounds of the model *)

\* largest side (in points) of the uniform grids that are triangulated
MaxGrid == 3

\* largest number of points of the convex polygons that are triangulated
MaxPolygon == 6

\* largest number of owned stars of the inputs of the logistics functions
MaxPoints == 5

\* largest number of entries of the initial border star queue
MaxQueue == 2

\* the initial scores are 1 .. MaxScore
MaxScore == 2

\* largest distance from an owned star to its closest enemy star, in halves
\* of highestHyperspaceDistance
MaxDistance == 5

\* largest number of credits of the player when play is first called
MaxCredits == 5

\* largest game.settings.galaxy.productionTicks
MaxProductionTicks == 3

\* game.state.tick runs from 0 to MaxTick
MaxTick == 4

\* largest number of calls of play, and of calls on one game
MaxCalls == 4

\* number of users who call join
MaxUsers == 3

\* largest game.settings.general.playerLimit
MaxPlayerLimit == 2

----------------------------------------------------------------------------
(* JavaScript Set and Map *)

ToSet(s) == { s[i] : i \in DOMAIN s }

\* a sequence given as a function, with its elements computed once
Array(f) == f \o << >>

\* << 1, ..., n >>
Indices(n) == Array([ i \in 1 .. n |-> i ])

\* the elements of xs at the indices I, in ascending order of index
OrderedSubseq(xs, I) ==
    LET idx == SelectSeq(Indices(Len(xs)), LAMBDA i : i \in I)
    IN  Array([ k \in DOMAIN idx |-> xs[idx[k]] ])

RECURSIVE FlattenRange(_, _, _)
\* seqs[lo] \o ... \o seqs[hi]
FlattenRange(seqs, lo, hi) ==
    IF lo > hi THEN << >>
    ELSE IF lo = hi THEN seqs[lo]
    ELSE FlattenRange(seqs, lo, (lo + hi) \div 2)
            \o FlattenRange(seqs, (lo + hi) \div 2 + 1, hi)

\* seqs[1] \o seqs[2] \o ... \o seqs[Len(seqs)]
Flatten(seqs) == FlattenRange(seqs, 1, Len(seqs))

\* Set.prototype.has
SetHas(s, x) == \E i \in DOMAIN s : s[i] = x

\* Set.prototype.add: appends unless present
SetAdd(s, x) == IF SetHas(s, x) THEN s ELSE Append(s, x)

\* const s = new Set(); for (let x of xs) { s.add(x) }: the distinct
\* elements of xs, each at the place of its first occurrence
NewSetOf(xs) ==
    OrderedSubseq(xs, { i \in DOMAIN xs : \A j \in 1 .. (i - 1) : xs[j] # xs[i] })

\* const s = new Set(); for (let xs of seqs) for (let x of xs) { s.add(x) }
NewSetOfAll(seqs) == NewSetOf(Flatten(Array(seqs)))

\* for (let x of xs) { s.add(x) }
SetAddAll(s, xs) == NewSetOf(s \o xs)

\* Set.prototype.delete
SetDelete(s, x) == SelectSeq(s, LAMBDA y : y # x)

\* Map.prototype.has
MapHas(m, k) == \E i \in DOMAIN m : m[i][1] = k

\* Map.prototype.get, for a key that is present
MapGet(m, k) == m[CHOOSE i \in DOMAIN m : m[i][1] = k][2]

\* Map.prototype.set: replaces the value in place, or appends a new entry
MapSet(m, k, v) ==
    IF MapHas(m, k)
    THEN LET i == CHOOSE j \in DOMAIN m : m[j][1] = k
         IN  SubSeq(m, 1, i - 1) \o << << k, v >> >> \o SubSeq(m, i + 1, Len(m))
    ELSE Append(m, << k, v >>)

MapKeys(m) == { m[i][1] : i \in DOMAIN m }

\* intersectionOfSets of ../utils.js: the elements of a that b has
IntersectionOfSets(a, b) == SelectSeq(a, LAMBDA x : SetHas(b, x))

----------------------------------------------------------------------------
(* Inputs: triangulations as Delaunator returns them (flat index triples) *)

\* index of the grid point (x, y) of a grid w points wide
GridIndex(w, x, y) == y * w + x

\* the two triangles of cell (cx, cy), split along the diagonal through its
\* origin corner (main) or along the other diagonal
CellTriangles(w, cx, cy, main) ==
    LET a == GridIndex(w, cx, cy)
        b == GridIndex(w, cx + 1, cy)
        c == GridIndex(w, cx, cy + 1)
        d == GridIndex(w, cx + 1, cy + 1)
    IN  IF main THEN << a, b, d, a, d, c >> ELSE << a, b, c, b, d, c >>

RECURSIVE GridTriangles(_, _, _, _)
\* cells n..last of a w x h grid, cell k at (k % (w-1), k \div (w-1))
GridTriangles(w, h, choice, n) ==
    IF n >= (w - 1) * (h - 1) THEN << >>
    ELSE CellTriangles(w, n % (w - 1), n \div (w - 1), choice[n])
            \o GridTriangles(w, h, choice, n + 1)

GridInputs ==
    UNION { { [ shape |-> [ kind |-> "grid", w |-> w, h |-> h, n |-> w * h ],
                triangles |-> GridTriangles(w, h, choice, 0) ]
              : choice \in [ 0 .. (w - 1) * (h - 1) - 1 -> BOOLEAN ] }
            : w \in 2 .. MaxGrid, h \in 2 .. MaxGrid }

RECURSIVE PolygonTriangles(_, _)
\* every triangulation of the convex polygon with corners i..j
PolygonTriangles(i, j) ==
    IF j - i < 2 THEN { << >> }
    ELSE UNION { { << i, k, j >> \o l \o r :
                     l \in PolygonTriangles(i, k), r \in PolygonTriangles(k, j) }
                 : k \in (i + 1) .. (j - 1) }

PolygonInputs ==
    UNION { { [ shape |-> [ kind |-> "polygon", w |-> 0, h |-> 0, n |-> n ],
                triangles |-> t ] : t \in PolygonTriangles(0, n - 1) }
            : n \in 3 .. MaxPolygon }

\* fewer than 3 stars, or collinear stars: Delaunator returns no triangle
DegenerateInputs ==
    { [ shape |-> [ kind |-> "degenerate", w |-> 0, h |-> 0, n |-> n ],
        triangles |-> << >> ] : n \in 0 .. 2 }

Inputs == GridInputs \cup PolygonInputs \cup DegenerateInputs

----------------------------------------------------------------------------
(* _setupAi, lines 68-77: the dual mappings *)

\* the loop of line 68 visits the slots of the flat array in order; slot i
\* (from 0) holds a vertex of triangle floor(i / 3)
TriangleIndexOfSlot(i) == i \div 3

\* lines 70-73: a vertex is entered when its first slot is visited, and its
\* Set receives the triangle of each of its slots, in order
BuildVertexIndexToTriangleIndices(tris) ==
    LET keys == NewSetOf(tris)
        slots == Array([ n \in DOMAIN tris |-> TriangleIndexOfSlot(n - 1) ])
    IN  Array([ k \in DOMAIN keys |->
            << keys[k],
               NewSetOf(OrderedSubseq(slots,
                   { n \in DOMAIN tris : tris[n] = keys[k] })) >> ])

\* lines 74-76: a triangle is entered when its first slot is visited, and
\* its Set receives the vertex of each of its slots, in order
BuildTriangleIndexToVertexIndices(tris) ==
    LET keys == NewSetOf(Array([ n \in DOMAIN tris |-> TriangleIndexOfSlot(n - 1) ]))
    IN  Array([ k \in DOMAIN keys |->
            << keys[k],
               NewSetOf(OrderedSubseq(tris,
                   { n \in DOMAIN tris : TriangleIndexOfSlot(n - 1) = keys[k] })) >> ])

----------------------------------------------------------------------------
(* _computeVertexGraph, lines 110-124 *)

\* lines 113-119: otherVertices receives the vertices of every triangle of
\* the vertex, in order; nothing is removed from it, so that a vertex is
\* among its own connected vertices
OtherVertices(t2v, triangleIndices) ==
    NewSetOfAll([ n \in DOMAIN triangleIndices |->
                    MapGet(t2v, triangleIndices[n]) ])

ComputeVertexGraph(v2t, t2v) ==
    Array([ i \in DOMAIN v2t |-> << v2t[i][1], OtherVertices(t2v, v2t[i][2]) >> ])

----------------------------------------------------------------------------
(* _computeBorderVertices, lines 126-171 *)

\* mutant of TriangleCandidates: the triangle itself is left out
TriangleCandidatesExceptSelf(t2v, v2t, triangleIndex) ==
    LET vertexIndices == MapGet(t2v, triangleIndex)
    IN  SetDelete(NewSetOfAll([ n \in DOMAIN vertexIndices |->
                                  MapGet(v2t, vertexIndices[n]) ]), triangleIndex)

\* lines 133-139: triangleCandidates receives the triangles of every vertex
\* of the triangle, in order (the triangle itself is one of them)
TriangleCandidates(t2v, v2t, triangleIndex) ==
    LET vertexIndices == MapGet(t2v, triangleIndex)
    IN  NewSetOfAll([ n \in DOMAIN vertexIndices |->
                        MapGet(v2t, vertexIndices[n]) ])

\* mutant of SharesTwoVertices: at least two shared vertices
SharesAtLeastTwoVertices(sharedVertices) == Len(sharedVertices) >= 2

\* line 148: the filter on the number of shared vertices
SharesTwoVertices(sharedVertices) == Len(sharedVertices) = 2

\* lines 141-148: map every candidate to its shared vertices, keep those
\* that pass the filter
TrianglesWithTwoSharedVertices(t2v, v2t, triangleIndex) ==
    SelectSeq(TriangleCandidates(t2v, v2t, triangleIndex),
              LAMBDA triangleCandidate :
                  SharesTwoVertices(
                      IntersectionOfSets(MapGet(t2v, triangleCandidate),
                                         MapGet(t2v, triangleIndex))))

\* line 150
IsBorderCount(n) == n < 3

\* the length tested at line 150, for every triangle
SharedCounts(t2v, v2t) ==
    Array([ i \in DOMAIN t2v |->
        << t2v[i][1], Len(TrianglesWithTwoSharedVertices(t2v, v2t, t2v[i][1])) >> ])

\* lines 131-154: the Map border triangle -> its candidates, in the order
\* of the triangles
BorderTrianglesOf(t2v, v2t) ==
    LET counts == SharedCounts(t2v, v2t)
        all == Array([ i \in DOMAIN t2v |->
                    << t2v[i][1], TriangleCandidates(t2v, v2t, t2v[i][1]) >> ])
    IN  SelectSeq(all, LAMBDA e : IsBorderCount(MapGet(counts, e[1])))

\* lines 160-161
SharedBorderTriangles(bt, borderTriangle) ==
    SelectSeq(MapGet(bt, borderTriangle), LAMBDA tr : MapHas(bt, tr))

\* lines 162-167: the common vertices of a border triangle and each of its
\* shared border triangles, in the order in which they are added
CommonVerticesOf(t2v, bt, borderTriangle) ==
    LET shared == SharedBorderTriangles(bt, borderTriangle)
    IN  NewSetOfAll([ n \in DOMAIN shared |->
                        IntersectionOfSets(MapGet(t2v, borderTriangle),
                                           MapGet(t2v, shared[n])) ])

\* lines 158-170
BorderVerticesOf(t2v, bt) ==
    NewSetOfAll([ n \in DOMAIN bt |-> CommonVerticesOf(t2v, bt, bt[n][1]) ])

ComputeBorderVertices(t2v, v2t) == BorderVerticesOf(t2v, BorderTrianglesOf(t2v, v2t))

----------------------------------------------------------------------------
(* Values of the variables a specification does not use *)

NoScore == [ m |-> 0, e |-> 0 ]

NoItem == [ score |-> NoScore, vertex |-> -1 ]

NoConnection == [ kind |-> "none", from |-> -1, to |-> -1 ]

NoGlobals == [ borderVertices |-> FALSE, score |-> FALSE, scoreValue |-> NoScore ]

NoPrev == [ unmarked |-> << >>, graph |-> << >>, queue |-> << >> ]

NoShape == [ kind |-> "none", w |-> 0, h |-> 0, n |-> 0 ]

NoPlayer == [ defeated |-> FALSE, ai |-> FALSE, credits |-> 0 ]

NoGame == [ tick |-> 0, productionTicks |-> 0 ]

NoHistory == [ calls |-> 0, setups |-> 0, setupThrown |-> "none",
               firstTicks |-> 0, lastTicks |-> 0, raised |-> "none",
               logged |-> "none", propagated |-> "none", creditsBefore |-> 0,
               lastTick |-> -1, oncePerTick |-> TRUE ]

NotPlaying ==
    /\ nearestEnemy = << >>
    /\ carrierLoops = << >>
    /\ player = NoPlayer
    /\ game = NoGame
    /\ history = NoHistory

----------------------------------------------------------------------------
(* Specification SpecBorder: _setupAi, lines 61-84, on every input *)

InitBorder ==
    /\ \E inp \in Inputs : shape = inp.shape /\ triangles = inp.triangles
    /\ pc = "setup"
    /\ vertexIndexToTriangleIndices = << >>
    /\ triangleIndexToVertexIndices = << >>
    /\ vertexIndexToConnectedVertexIndices = << >>
    /\ sharedCounts = << >>
    /\ borderTriangles = << >>
    /\ borderVertices = << >>
    /\ globals = NoGlobals
    /\ borderStarQueue = << >>
    /\ unmarkedVertices = << >>
    /\ logisticsGraph = << >>
    /\ item = NoItem
    /\ nextConnection = NoConnection
    /\ startingVertex = -1
    /\ thrown = "none"
    /\ prev = NoPrev
    /\ NotPlaying

\* _setupAi, lines 64-77
SetupMaps ==
    /\ pc = "setup"
    /\ vertexIndexToTriangleIndices' =
           BuildVertexIndexToTriangleIndices(triangles)
    /\ triangleIndexToVertexIndices' =
           BuildTriangleIndexToVertexIndices(triangles)
    /\ pc' = "maps"
    /\ UNCHANGED << shape, triangles, vertexIndexToConnectedVertexIndices,
                    sharedCounts, borderTriangles, borderVertices, globals,
                    borderStarQueue, unmarkedVertices, logisticsGraph, item,
                    nextConnection, startingVertex, thrown, prev >>
    /\ UNCHANGED playVars

\* _setupAi, line 81
SetupVertexGraph ==
    /\ pc = "maps"
    /\ vertexIndexToConnectedVertexIndices' =
           ComputeVertexGraph(vertexIndexToTriangleIndices,
                              triangleIndexToVertexIndices)
    /\ pc' = "graph"
    /\ UNCHANGED << shape, triangles, vertexIndexToTriangleIndices,
                    triangleIndexToVertexIndices, sharedCounts, borderTriangles,
                    borderVertices, globals, borderStarQueue, unmarkedVertices,
                    logisticsGraph, item, nextConnection, startingVertex, thrown, prev >>
    /\ UNCHANGED playVars

\* _setupAi, line 84
SetupBorderVertices ==
    /\ pc = "graph"
    /\ sharedCounts' = SharedCounts(triangleIndexToVertexIndices,
                                    vertexIndexToTriangleIndices)
    /\ borderTriangles' = BorderTrianglesOf(triangleIndexToVertexIndices,
                                            vertexIndexToTriangleIndices)
    /\ borderVertices' = ComputeBorderVertices(triangleIndexToVertexIndices,
                                               vertexIndexToTriangleIndices)
    /\ pc' = "border"
    /\ UNCHANGED << shape, triangles, vertexIndexToTriangleIndices,
                    triangleIndexToVertexIndices,
                    vertexIndexToConnectedVertexIndices, globals,
                    borderStarQueue, unmarkedVertices, logisticsGraph, item,
                    nextConnection, startingVertex, thrown, prev >>
    /\ UNCHANGED playVars

NextBorder == SetupMaps \/ SetupVertexGraph \/ SetupBorderVertices

SpecBorder == InitBorder /\ [][NextBorder]_vars

----------------------------------------------------------------------------
(* The triangulation as geometry, read off the flat array *)

TriangleIds == 0 .. (Len(triangles) \div 3) - 1

PointsOf(t) == { triangles[3 * t + 1], triangles[3 * t + 2], triangles[3 * t + 3] }

\* the triangles other than t that share an edge (exactly two points) with t
EdgeNeighbours(t) ==
    { u \in TriangleIds \ {t} : Cardinality(PointsOf(t) \cap PointsOf(u)) = 2 }

IsBoundaryTriangle(t) == Cardinality(EdgeNeighbours(t)) < 3

\* a grid point with grid points on all four sides
InteriorGridPoints ==
    { GridIndex(shape.w, x, y) : x \in 1 .. shape.w - 2, y \in 1 .. shape.h - 2 }

----------------------------------------------------------------------------
(* Claims on the Border Detector *)

\* C8: a point is in the Boundary Set iff it is a vertex common to two
\* boundary triangles, the second one another triangle that shares a point
\* with the first; a boundary triangle that no other boundary triangle
\* touches contributes no point.
C8_BoundarySetIsSharedVertices ==
    pc = "border" =>
        ToSet(borderVertices) =
            { p \in 0 .. shape.n - 1 :
                \E t \in TriangleIds, u \in TriangleIds :
                    /\ u # t
                    /\ IsBoundaryTriangle(t) /\ IsBoundaryTriangle(u)
                    /\ p \in PointsOf(t) \cap PointsOf(u) }

\* C9: for every triangle the detector counts between 0 and 3 triangles
\* sharing exactly two points with it, that count is the number of its edge
\* neighbours, and the triangle is a boundary triangle iff the count is
\* below 3.
C9_BoundaryClassification ==
    pc = "border" =>
        /\ MapKeys(sharedCounts) = TriangleIds
        /\ \A t \in TriangleIds :
              /\ MapGet(sharedCounts, t) \in 0 .. 3
              /\ MapGet(sharedCounts, t) = Cardinality(EdgeNeighbours(t))
              /\ MapHas(borderTriangles, t) <=> Cardinality(EdgeNeighbours(t)) < 3

\* C9 witness: a triangulation with an interior triangle (3 edge neighbours)
\* and a boundary triangle has been classified.
C9_Witness ==
    /\ pc = "border"
    /\ \E t \in TriangleIds :
          MapGet(sharedCounts, t) = 3 /\ ~ MapHas(borderTriangles, t)
    /\ \E t \in TriangleIds :
          MapGet(sharedCounts, t) < 3 /\ MapHas(borderTriangles, t)

\* C10: on a uniform grid of at least 3x3 points, whichever diagonal splits
\* each cell, no strictly interior grid point is in the Boundary Set.
C10_InteriorGridPointsNotBoundary ==
    ( pc = "border" /\ shape.kind = "grid" /\ shape.w >= 3 /\ shape.h >= 3 ) =>
        \A p \in InteriorGridPoints : ~ SetHas(borderVertices, p)

----------------------------------------------------------------------------
(* Scores: the number m / 2^e, so that halving is exact *)

RECURSIVE Pow2(_)
Pow2(n) == IF n = 0 THEN 1 ELSE 2 * Pow2(n - 1)

ScoreLess(a, b) == a.m * Pow2(b.e) < b.m * Pow2(a.e)

ScoreEq(a, b) == a.m * Pow2(b.e) = b.m * Pow2(a.e)

\* a score of the initial queue
Score(n) == [ m |-> n, e |-> 0 ]

\* line 220: oldScore * 0.5
Decay(oldScore) == [ m |-> oldScore.m, e |-> oldScore.e + 1 ]

----------------------------------------------------------------------------
(* The border star queue: a qheap built with the comparators of lines 178-181 *)

\* line 179: comparBefore, true when b1 sorts before b2
ComparBefore(b1, b2) == ScoreLess(b1.score, b2.score)

\* line 211: dequeue removes an entry that no other entry sorts before
CanDequeue(queue, i) ==
    \A j \in DOMAIN queue : ~ ComparBefore(queue[j], queue[i])

\* mutant of QueueWithout: the dequeued entry is put back at the end as well
QueueWithEntryAgain(queue, i) ==
    SubSeq(queue, 1, i - 1) \o SubSeq(queue, i + 1, Len(queue)) \o << queue[i], queue[i] >>

\* the queue without its i-th entry
QueueWithout(queue, i) == SubSeq(queue, 1, i - 1) \o SubSeq(queue, i + 1, Len(queue))

\* lines 191 and 219: insert
QueueInsert(queue, entry) == Append(queue, entry)

----------------------------------------------------------------------------
(* The elements of unmarkedVertices *)

\* a vertex index
Num(v) == [ entry |-> FALSE, key |-> v ]

\* the array [vertexIndex, connectedVertexIndices] that iterating a Map yields
Entry(k) == [ entry |-> TRUE, key |-> k ]

----------------------------------------------------------------------------
(* _findNextLogisticsConnection, lines 229-247 *)

Connection(from, to) == [ kind |-> "connection", from |-> from, to |-> to ]

Null == [ kind |-> "null", from |-> -1, to |-> -1 ]

TypeError == [ kind |-> "TypeError", from |-> -1, to |-> -1 ]

\* mutant of IsUnmarked: the test of line 231 left out
IsUnmarkedAlways(unmarked, v) == TRUE

\* line 231: unmarkedVertices.has(v), v a vertex index
IsUnmarked(unmarked, v) == SetHas(unmarked, Num(v))

\* line 231: the positions in possibleConnections that find() accepts
DirectPositions(possibleConnections, unmarked) ==
    { i \in DOMAIN possibleConnections : IsUnmarked(unmarked, possibleConnections[i]) }

\* mutant of Direct: an unmarked vertex, among the possible connections or not
DirectOfAllUnmarked(possibleConnections, unmarked) == unmarked[Len(unmarked)].key

\* line 231: Array.from(...).find(...) returns the first such vertex
Direct(possibleConnections, unmarked) ==
    possibleConnections[CHOOSE i \in DirectPositions(possibleConnections, unmarked) :
        \A j \in DirectPositions(possibleConnections, unmarked) : i <= j]

\* line 232: if (direct), false for undefined and for the vertex index 0
DirectIsTruthy(possibleConnections, unmarked) ==
    /\ DirectPositions(possibleConnections, unmarked) # {}
    /\ Direct(possibleConnections, unmarked) # 0

RECURSIVE FindNextLogisticsConnection(_, _, _, _)
RECURSIVE FindInConnected(_, _, _, _, _)

\* lines 240-245: the first connection found from connected[i], connected[i+1], ...;
\* an exception thrown by a recursive call ends the loop
FindInConnected(adjacency, graph, unmarked, connected, i) ==
    IF i > Len(connected) THEN Null
    ELSE LET newConnection ==
                 FindNextLogisticsConnection(adjacency, graph, unmarked, connected[i])
         IN  IF newConnection.kind = "null"
             THEN FindInConnected(adjacency, graph, unmarked, connected, i + 1)
             ELSE newConnection

\* the value returned, or the exception thrown; a returned connection's
\* destination has been deleted from unmarkedVertices (line 233)
FindNextLogisticsConnection(adjacency, graph, unmarked, start) ==
    IF ~ MapHas(adjacency, start)
    THEN TypeError                      \* line 231: Array.from(undefined)
    ELSE IF DirectIsTruthy(MapGet(adjacency, start), unmarked)
    THEN Connection(start, Direct(MapGet(adjacency, start), unmarked))
    ELSE IF ~ MapHas(graph, start)
    THEN TypeError                      \* line 240: connected is undefined
    ELSE FindInConnected(adjacency, graph, unmarked, MapGet(graph, start), 1)

\* mutant of UnmarkedAfter: line 233 left out
UnmarkedKept(unmarked, result) == unmarked

\* line 233
UnmarkedAfter(unmarked, result) ==
    IF result.kind = "connection" THEN SetDelete(unmarked, Num(result.to)) ELSE unmarked

\* lines 215-218
GraphAfter(graph, result) ==
    IF result.kind = "connection"
    THEN MapSet(graph, result.from,
                SetAdd(IF MapHas(graph, result.from)
                       THEN MapGet(graph, result.from) ELSE << >>, result.to))
    ELSE graph

----------------------------------------------------------------------------
(* Inputs of the logistics functions *)

LogisticsInputs == { inp \in Inputs : inp.shape.n <= MaxPoints }

\* << 0, ..., n-1 >> restricted to the set U, ascending
VerticesIn(n, U) == SelectSeq(Array([ i \in 1 .. n |-> i - 1 ]), LAMBDA v : v \in U)

\* the queues _computeBorderStarQueue can return: at most one entry per
\* border vertex
QueueInputs(border, n) ==
    UNION { { LET vs == VerticesIn(n, U)
              IN  Array([ k \in DOMAIN vs |-> [ score |-> Score(f[vs[k]]), vertex |-> vs[k] ] ])
              : f \in [ U -> 1 .. MaxScore ] }
            : U \in { V \in SUBSET ToSet(border) : Cardinality(V) <= MaxQueue } }

\* the free identifiers borderVertices (line 204) and score (line 213) are
\* looked up in the global scope, which binds them or not
GlobalInputs ==
    { [ borderVertices |-> b, score |-> FALSE, scoreValue |-> NoScore ] : b \in BOOLEAN }
    \cup { [ borderVertices |-> b, score |-> TRUE, scoreValue |-> Score(v) ]
           : b \in BOOLEAN, v \in 1 .. MaxScore }

\* the arguments as _setupAi computes them (lines 61-84)
InitArguments(inp) ==
    /\ shape = inp.shape
    /\ triangles = inp.triangles
    /\ vertexIndexToTriangleIndices = BuildVertexIndexToTriangleIndices(inp.triangles)
    /\ triangleIndexToVertexIndices = BuildTriangleIndexToVertexIndices(inp.triangles)
    /\ vertexIndexToConnectedVertexIndices =
           ComputeVertexGraph(BuildVertexIndexToTriangleIndices(inp.triangles),
                              BuildTriangleIndexToVertexIndices(inp.triangles))
    /\ sharedCounts = SharedCounts(BuildTriangleIndexToVertexIndices(inp.triangles),
                                   BuildVertexIndexToTriangleIndices(inp.triangles))
    /\ borderTriangles = BorderTrianglesOf(BuildTriangleIndexToVertexIndices(inp.triangles),
                                           BuildVertexIndexToTriangleIndices(inp.triangles))
    /\ borderVertices = ComputeBorderVertices(BuildTriangleIndexToVertexIndices(inp.triangles),
                                              BuildVertexIndexToTriangleIndices(inp.triangles))

----------------------------------------------------------------------------
(* Specification SpecLogistics: _createLogisticsGraph, lines 201-227 *)

InitLogistics ==
    /\ \E inp \in LogisticsInputs : InitArguments(inp)
    /\ borderStarQueue \in QueueInputs(borderVertices, shape.n)
    /\ globals \in GlobalInputs
    /\ pc = "collect"
    /\ unmarkedVertices = << >>
    /\ logisticsGraph = << >>
    /\ item = NoItem
    /\ nextConnection = NoConnection
    /\ startingVertex = -1
    /\ thrown = "none"
    /\ prev = NoPrev
    /\ NotPlaying

\* lines 203-207: for (let vertexIndex of map) yields the Map's entries, the
\* arrays [key, value]; no Set of vertex indices has such an array, so that
\* every entry is added
UnmarkedCollected(adjacency) == Array([ i \in DOMAIN adjacency |-> Entry(adjacency[i][1]) ])

\* lines 202-209
CollectUnmarked ==
    /\ pc = "collect"
    /\ IF vertexIndexToConnectedVertexIndices # << >> /\ ~ globals.borderVertices
       THEN \* line 204: ReferenceError, borderVertices is not defined
            /\ pc' = "threw"
            /\ thrown' = "ReferenceError"
            /\ UNCHANGED unmarkedVertices
       ELSE /\ pc' = "loop"
            /\ unmarkedVertices' = UnmarkedCollected(vertexIndexToConnectedVertexIndices)
            /\ UNCHANGED thrown
    /\ UNCHANGED << shape, triangles, vertexIndexToTriangleIndices,
                    triangleIndexToVertexIndices,
                    vertexIndexToConnectedVertexIndices, sharedCounts,
                    borderTriangles, borderVertices, globals, borderStarQueue,
                    logisticsGraph, item, nextConnection, startingVertex, prev >>
    /\ UNCHANGED playVars

\* line 210
LoopCondition == unmarkedVertices # << >> /\ borderStarQueue # << >>

\* lines 213-223, after the entry `dequeued` left the queue `rest`
IterationOutcome(dequeued, rest) ==
    LET result == FindNextLogisticsConnection(vertexIndexToConnectedVertexIndices,
                      logisticsGraph, unmarkedVertices, dequeued.vertex)
    IN  IF ~ globals.score
        THEN \* line 213: ReferenceError, score is not defined
             [ pc |-> "threw", thrown |-> "ReferenceError", queue |-> rest,
               unmarked |-> unmarkedVertices, graph |-> logisticsGraph,
               nextConnection |-> nextConnection, startingVertex |-> startingVertex ]
        ELSE IF result.kind = "TypeError"
        THEN [ pc |-> "threw", thrown |-> "TypeError", queue |-> rest,
               unmarked |-> unmarkedVertices, graph |-> logisticsGraph,
               nextConnection |-> nextConnection, startingVertex |-> dequeued.vertex ]
        ELSE [ pc |-> "loop", thrown |-> "none",
               queue |-> IF result.kind = "connection"
                         THEN QueueInsert(rest, [ score |-> Decay(globals.scoreValue),
                                                  vertex |-> dequeued.vertex ])
                         ELSE rest,
               unmarked |-> UnmarkedAfter(unmarkedVertices, result),
               graph |-> GraphAfter(logisticsGraph, result),
               nextConnection |-> result, startingVertex |-> dequeued.vertex ]

\* lines 210-224, one pass of the loop
LoopIteration ==
    /\ pc = "loop"
    /\ LoopCondition
    /\ \E i \in DOMAIN borderStarQueue :
          /\ CanDequeue(borderStarQueue, i)
          /\ LET outcome == IterationOutcome(borderStarQueue[i],
                                             QueueWithout(borderStarQueue, i))
             IN  /\ item' = borderStarQueue[i]
                 /\ pc' = outcome.pc
                 /\ thrown' = outcome.thrown
                 /\ borderStarQueue' = outcome.queue
                 /\ unmarkedVertices' = outcome.unmarked
                 /\ logisticsGraph' = outcome.graph
                 /\ nextConnection' = outcome.nextConnection
                 /\ startingVertex' = outcome.startingVertex
    /\ prev' = [ unmarked |-> unmarkedVertices, graph |-> logisticsGraph,
                 queue |-> borderStarQueue ]
    /\ UNCHANGED << shape, triangles, vertexIndexToTriangleIndices,
                    triangleIndexToVertexIndices,
                    vertexIndexToConnectedVertexIndices, sharedCounts,
                    borderTriangles, borderVertices, globals >>
    /\ UNCHANGED playVars

\* lines 210 and 226: the loop condition fails and the graph is returned
LoopExit ==
    /\ pc = "loop"
    /\ ~ LoopCondition
    /\ pc' = "returned"
    /\ UNCHANGED << shape, triangles, vertexIndexToTriangleIndices,
                    triangleIndexToVertexIndices,
                    vertexIndexToConnectedVertexIndices, sharedCounts,
                    borderTriangles, borderVertices, globals, borderStarQueue,
                    unmarkedVertices, logisticsGraph, item, nextConnection,
                    startingVertex, thrown, prev >>
    /\ UNCHANGED playVars

NextLogistics == CollectUnmarked \/ LoopIteration \/ LoopExit

SpecLogistics == InitLogistics /\ [][NextLogistics]_vars

----------------------------------------------------------------------------
(* Specification SpecFind: _findNextLogisticsConnection called again and   *)
(* again on one adjacency Map, one Set of unmarked vertex indices and one  *)
(* logistics graph, each returned connection entered as in lines 215-218   *)

InitFind ==
    /\ \E inp \in LogisticsInputs : inp.triangles # << >> /\ InitArguments(inp)
    /\ \E U \in SUBSET (0 .. shape.n - 1) :
          unmarkedVertices = Array([ k \in DOMAIN VerticesIn(shape.n, U) |->
                                       Num(VerticesIn(shape.n, U)[k]) ])
    /\ globals = NoGlobals
    /\ borderStarQueue = << >>
    /\ pc = "search"
    /\ logisticsGraph = << >>
    /\ item = NoItem
    /\ nextConnection = NoConnection
    /\ startingVertex = -1
    /\ thrown = "none"
    /\ prev = NoPrev
    /\ NotPlaying

\* lines 214-218, for a starting vertex that is not unmarked
Search ==
    /\ pc = "search"
    /\ \E start \in MapKeys(vertexIndexToConnectedVertexIndices) :
          /\ ~ SetHas(unmarkedVertices, Num(start))
          /\ LET result == FindNextLogisticsConnection(
                               vertexIndexToConnectedVertexIndices,
                               logisticsGraph, unmarkedVertices, start)
             IN  /\ nextConnection' = result
                 /\ thrown' = IF result.kind = "TypeError" THEN "TypeError" ELSE "none"
                 /\ unmarkedVertices' = UnmarkedAfter(unmarkedVertices, result)
                 /\ logisticsGraph' = GraphAfter(logisticsGraph, result)
          /\ startingVertex' = start
    /\ prev' = [ unmarked |-> unmarkedVertices, graph |-> logisticsGraph,
                 queue |-> borderStarQueue ]
    /\ UNCHANGED << pc, shape, triangles, vertexIndexToTriangleIndices,
                    triangleIndexToVertexIndices,
                    vertexIndexToConnectedVertexIndices, sharedCounts,
                    borderTriangles, borderVertices, globals, borderStarQueue,
                    item >>
    /\ UNCHANGED playVars

NextFind == Search

SpecFind == InitFind /\ [][NextFind]_vars

----------------------------------------------------------------------------
(* The logistics state as the spec speaks of it *)

\* the edges source -> destination of a logistics graph
Edges(graph) ==
    UNION { { << graph[i][1], to >> : to \in ToSet(graph[i][2]) } : i \in DOMAIN graph }

Destinations(graph) == { e[2] : e \in Edges(graph) }

\* the points that a Set of unmarked vertices holds, as index or as Map entry
Unclaimed(unmarked) == { unmarked[i].key : i \in DOMAIN unmarked }

\* the points that share a triangle with p
AdjacentPoints(p) == ToSet(MapGet(vertexIndexToConnectedVertexIndices, p)) \ {p}

HasUnclaimedAdjacent(p, unmarked) == AdjacentPoints(p) \cap Unclaimed(unmarked) # {}

RECURSIVE ReachIn(_, _, _)
ReachIn(graph, S, n) ==
    IF n = 0 THEN S
    ELSE ReachIn(graph, S \cup { e[2] : e \in { f \in Edges(graph) : f[1] \in S } }, n - 1)

\* the points reachable from p along the edges of the graph, p included
Reach(graph, p) == ReachIn(graph, {p}, shape.n)

\* a pass of the loop, or a search, has acted
Iterated == item # NoItem

Searched == nextConnection.kind # "none"

----------------------------------------------------------------------------
(* Claims on the Logistics Graph Builder *)

C2_NoSelfEdgeNoSecondClaim ==
    /\ \A e \in Edges(logisticsGraph) : e[1] # e[2]
    /\ \A e \in Edges(logisticsGraph), f \in Edges(logisticsGraph) :
          e[2] = f[2] => e = f
    /\ nextConnection.kind = "connection" =>
          /\ nextConnection.to \notin Destinations(prev.graph)
          /\ nextConnection.to \in Unclaimed(prev.unmarked)
          /\ nextConnection.to \notin Unclaimed(unmarkedVertices)

\* C2 witness: a graph of three edges or more whose last edge was found
\* through an earlier edge (its source is not the starting vertex).
C2_Witness ==
    /\ Cardinality(Edges(logisticsGraph)) >= 3
    /\ nextConnection.kind = "connection"
    /\ nextConnection.from # startingVertex
    /\ nextConnection.to # 0

\* C3: every dequeue returns an entry whose score is at least the score of
\* every other entry the queue holds at that moment.
C3_DequeueReturnsMaximum ==
    Iterated =>
        \A j \in DOMAIN prev.queue : ~ ScoreLess(item.score, prev.queue[j].score)

C5_NothingFoundWithoutError ==
    ( Searched /\ \A p \in Reach(prev.graph, startingVertex) :
                      ~ HasUnclaimedAdjacent(p, prev.unmarked) ) =>
        /\ nextConnection.kind = "null"
        /\ thrown = "none"
        /\ logisticsGraph = prev.graph
        /\ unmarkedVertices = prev.unmarked

\* C6: when the starting point has an adjacent point in unclaimed, whatever
\* its index, exactly one such point leaves unclaimed and exactly the edge
\* starting point -> that point enters the Logistics Graph.
C6_DirectNeighbourClaimed ==
    ( Searched /\ HasUnclaimedAdjacent(startingVertex, prev.unmarked) ) =>
        /\ nextConnection.kind = "connection"
        /\ nextConnection.from = startingVertex
        /\ nextConnection.to \in AdjacentPoints(startingVertex) \cap Unclaimed(prev.unmarked)
        /\ Unclaimed(unmarkedVertices) = Unclaimed(prev.unmarked) \ { nextConnection.to }
        /\ Edges(logisticsGraph) =
              Edges(prev.graph) \cup { << startingVertex, nextConnection.to >> }

\* C7: when the starting point has no unclaimed adjacent point but a point
\* reachable from it along Logistics Graph edges has one, the search returns
\* a connection: exactly one point leaves unclaimed and exactly one edge
\* enters the Logistics Graph.
C7_TransitiveConnectionFound ==
    ( /\ Searched
      /\ ~ HasUnclaimedAdjacent(startingVertex, prev.unmarked)
      /\ \E p \in Reach(prev.graph, startingVertex) :
            HasUnclaimedAdjacent(p, prev.unmarked) ) =>
        /\ nextConnection.kind = "connection"
        /\ Unclaimed(unmarkedVertices) \subseteq Unclaimed(prev.unmarked)
        /\ Cardinality(Unclaimed(prev.unmarked) \ Unclaimed(unmarkedVertices)) = 1
        /\ Edges(prev.graph) \subseteq Edges(logisticsGraph)
        /\ Cardinality(Edges(logisticsGraph) \ Edges(prev.graph)) = 1

----------------------------------------------------------------------------
(* Claims on the shapes of section 8 and on the adjacency graph *)

AllPoints == 0 .. shape.n - 1

IsSquare == shape.kind = "polygon" /\ shape.n = 4

C12_SquareNothingToPlan ==
    IsSquare =>
        /\ ToSet(borderVertices) = AllPoints
        /\ pc # "collect" =>
              /\ Unclaimed(unmarkedVertices) = {}
              /\ logisticsGraph = << >>
              /\ thrown = "none"

\* C17: the adjacency set of a point p is exactly the set of the points
\* other than p that occur with p in a triangle: no point is in its own
\* adjacency set, and the relation is symmetric.
C17_AdjacencyExcludesSelf ==
    pc \in { "graph", "border" } =>
        \A i \in DOMAIN vertexIndexToConnectedVertexIndices :
            LET p   == vertexIndexToConnectedVertexIndices[i][1]
                adj == ToSet(vertexIndexToConnectedVertexIndices[i][2])
            IN  /\ adj = { q \in AllPoints :
                             q # p /\ \E t \in TriangleIds : {p, q} \subseteq PointsOf(t) }
                /\ p \notin adj
                /\ \A q \in adj : p \in ToSet(MapGet(vertexIndexToConnectedVertexIndices, q))

----------------------------------------------------------------------------
(* Specification SpecScore: _computeBorderStarQueue, lines 173-199 *)

\* line 177: enemyStars is empty, there is no closest enemy star
NoEnemy == -1

\* line 188: distanceRelative < 2.5, in halves of highestHyperspaceDistance
SafeDistance == 5

\* the distances from every owned star to its closest enemy star
DistanceInputs(n) ==
    { [ i \in 1 .. n |-> NoEnemy ] } \cup [ 1 .. n -> 0 .. MaxDistance ]

\* lines 174-175: this.distanceService is undefined, because the constructor
\* (line 15) evaluates it and assigns nothing; reading getHyperspaceDistance
\* of it throws a TypeError, and lines 177-198 are not reached
ComputeBorderStarQueueOutcome(border, distances) ==
    [ thrown |-> "TypeError", queue |-> << >> ]

InitScore ==
    /\ \E inp \in LogisticsInputs : InitArguments(inp)
    /\ nearestEnemy \in DistanceInputs(shape.n)
    /\ pc = "score"
    /\ globals = NoGlobals
    /\ borderStarQueue = << >>
    /\ unmarkedVertices = << >>
    /\ logisticsGraph = << >>
    /\ item = NoItem
    /\ nextConnection = NoConnection
    /\ startingVertex = -1
    /\ thrown = "none"
    /\ prev = NoPrev
    /\ carrierLoops = << >>
    /\ player = NoPlayer
    /\ game = NoGame
    /\ history = NoHistory

\* _setupAi, line 87
ComputeBorderStarQueue ==
    /\ pc = "score"
    /\ LET outcome == ComputeBorderStarQueueOutcome(borderVertices, nearestEnemy)
       IN  /\ thrown' = outcome.thrown
           /\ borderStarQueue' = outcome.queue
           /\ pc' = IF outcome.thrown = "none" THEN "scored" ELSE "threw"
    /\ UNCHANGED << shape, triangles, vertexIndexToTriangleIndices,
                    triangleIndexToVertexIndices,
                    vertexIndexToConnectedVertexIndices, sharedCounts,
                    borderTriangles, borderVertices, globals, unmarkedVertices,
                    logisticsGraph, item, nextConnection, startingVertex, prev >>
    /\ UNCHANGED playVars

NextScore == ComputeBorderStarQueue

SpecScore == InitScore /\ [][NextScore]_vars

----------------------------------------------------------------------------
(* Claims on the Threat Scorer *)

HostileSetEmpty == \A i \in DOMAIN nearestEnemy : nearestEnemy[i] = NoEnemy

Scored == pc \in { "scored", "threw" }

QueueEntriesOf(v) == { i \in DOMAIN borderStarQueue : borderStarQueue[i].vertex = v }

\* C14: with an empty hostile-point set the Threat Scorer raises no error and
\* inserts no boundary point into the queue, and the Logistics Graph is empty.
C14_NoHostileNoQueue ==
    ( Scored /\ HostileSetEmpty ) =>
        /\ thrown = "none"
        /\ borderStarQueue = << >>
        /\ logisticsGraph = << >>

\* C15: a boundary point is in the queue iff the distance to its nearest
\* hostile point is less than 2.5 times maxRange, it is there at most once,
\* and of two inserted boundary points the nearer one has the higher score.
C15_InsertedIffThreatened ==
    ( Scored /\ ~ HostileSetEmpty ) =>
        /\ \A v \in ToSet(borderVertices) :
              /\ QueueEntriesOf(v) # {} <=> nearestEnemy[v + 1] < SafeDistance
              /\ Cardinality(QueueEntriesOf(v)) <= 1
        /\ \A i \in DOMAIN borderStarQueue, j \in DOMAIN borderStarQueue :
              nearestEnemy[borderStarQueue[i].vertex + 1]
                  < nearestEnemy[borderStarQueue[j].vertex + 1]
              => ScoreLess(borderStarQueue[j].score, borderStarQueue[i].score)

\* C16: a boundary point with a hostile point at distance 0 makes the Threat
\* Scorer raise no error (no division by zero) and enters the queue with a
\* finite score that no other entry exceeds and that a decay strictly reduces.
C16_ZeroDistanceMaximumScore ==
    ( Scored /\ ~ HostileSetEmpty ) =>
        \A v \in ToSet(borderVertices) :
            nearestEnemy[v + 1] = 0 =>
                /\ thrown = "none"
                /\ \E i \in QueueEntriesOf(v) :
                      /\ \A j \in DOMAIN borderStarQueue :
                            ~ ScoreLess(borderStarQueue[i].score, borderStarQueue[j].score)
                      /\ ScoreLess(Decay(borderStarQueue[i].score), borderStarQueue[i].score)

----------------------------------------------------------------------------
(* Specification SpecLoops: _computeCarrierLoopsFromGraph, lines 95-108 *)

\* playerStars[i], the star that owns the vertex index i (line 60)
PlayerStar(i) == [ star |-> i ]

\* an element that was never assigned, of an array made by new Array(size)
EmptySlot == [ empty |-> TRUE, from |-> PlayerStar(-1), to |-> PlayerStar(-1) ]

\* lines 100-103
Loop(start, end) == [ empty |-> FALSE, from |-> PlayerStar(start), to |-> PlayerStar(end) ]

\* line 96: new Array(logisticsGraph.size), an array of that length without elements
NewArray(size) == Array([ i \in 1 .. size |-> EmptySlot ])

\* lines 98-105: one push per destination of every entry, after the
\* elements the array has already
LoopsPushed(graph) ==
    Flatten(Array([ i \in DOMAIN graph |->
        Array([ j \in DOMAIN graph[i][2] |-> Loop(graph[i][1], graph[i][2][j]) ]) ]))

ComputeCarrierLoopsFromGraph(graph) == NewArray(Len(graph)) \o LoopsPushed(graph)

RECURSIVE GraphOfSources(_, _)
\* the logistics graph that lines 215-218 build when the vertices 0 .. v-1
\* are claimed in ascending order, vertex d from source[d + 1] (none if -1)
GraphOfSources(source, v) ==
    IF v = 0 THEN << >>
    ELSE IF source[v] = -1 THEN GraphOfSources(source, v - 1)
    ELSE GraphAfter(GraphOfSources(source, v - 1), Connection(source[v], v - 1))

\* the logistics graphs on n stars in which every star has one source at most
GraphInputs(n) ==
    { GraphOfSources(source, n) :
        source \in { f \in [ 1 .. n -> -1 .. n - 1 ] : \A d \in 1 .. n : f[d] # d - 1 } }

InitLoops ==
    /\ \E n \in 0 .. MaxPoints :
          /\ shape = [ kind |-> "stars", w |-> 0, h |-> 0, n |-> n ]
          /\ logisticsGraph \in GraphInputs(n)
    /\ pc = "loops"
    /\ triangles = << >>
    /\ vertexIndexToTriangleIndices = << >>
    /\ triangleIndexToVertexIndices = << >>
    /\ vertexIndexToConnectedVertexIndices = << >>
    /\ sharedCounts = << >>
    /\ borderTriangles = << >>
    /\ borderVertices = << >>
    /\ globals = NoGlobals
    /\ borderStarQueue = << >>
    /\ unmarkedVertices = << >>
    /\ item = NoItem
    /\ nextConnection = NoConnection
    /\ startingVertex = -1
    /\ thrown = "none"
    /\ prev = NoPrev
    /\ NotPlaying

\* _setupAi, line 92
ComputeCarrierLoops ==
    /\ pc = "loops"
    /\ carrierLoops' = ComputeCarrierLoopsFromGraph(logisticsGraph)
    /\ pc' = "returned"
    /\ UNCHANGED << shape, triangles, vertexIndexToTriangleIndices,
                    triangleIndexToVertexIndices,
                    vertexIndexToConnectedVertexIndices, sharedCounts,
                    borderTriangles, borderVertices, globals, borderStarQueue,
                    unmarkedVertices, logisticsGraph, item, nextConnection,
                    startingVertex, thrown, prev >>
    /\ UNCHANGED << nearestEnemy, player, game, history >>

NextLoops == ComputeCarrierLoops

SpecLoops == InitLoops /\ [][NextLoops]_vars

\* C18: the list of the Carrier Loop Deriver holds one loop descriptor per
\* edge of the Logistics Graph, from the owner of the source to the owner of
\* the destination, and nothing else: its length is the number of edges.
C18_OneLoopPerEdge ==
    pc = "returned" =>
        /\ Len(carrierLoops) = Cardinality(Edges(logisticsGraph))
        /\ \A i \in DOMAIN carrierLoops :
              /\ ~ carrierLoops[i].empty
              /\ \E e \in Edges(logisticsGraph) :
                    /\ carrierLoops[i].from = PlayerStar(e[1])
                    /\ carrierLoops[i].to = PlayerStar(e[2])
        /\ \A e \in Edges(logisticsGraph) :
              \E i \in DOMAIN carrierLoops :
                  /\ carrierLoops[i].from = PlayerStar(e[1])
                  /\ carrierLoops[i].to = PlayerStar(e[2])

----------------------------------------------------------------------------
(* Specification SpecPlay: play, lines 18-47, called any number of times   *)
(* for one player while the game's tick advances                           *)

FIRST_TICK_BULK_UPGRADE_SCI_PERCENTAGE == 20

FIRST_TICK_BULK_UPGRADE_IND_PERCENTAGE == 30

LAST_TICK_BULK_UPGRADE_ECO_PERCENTAGE == 100

\* Math.floor(player.credits / 100 * percentage), lines 256, 257 and 275;
\* for the credits of the model the floating-point product is exact up to
\* the floor
CreditsToSpend(credits, percentage) == (credits * percentage) \div 100

\* what starUpgradeService.upgradeBulk can do with a budget: throw, or spend
\* some of it
UpgradeBulk(budget) ==
    { [ thrown |-> "UpgradeError", spent |-> 0 ] }
    \cup { [ thrown |-> "none", spent |-> c ] : c \in 0 .. budget }

\* lines 259-265 and 277-279: one upgradeBulk call per non-zero budget, in
\* order, the first exception ending the sequence
RECURSIVE SpendAll(_, _)
SpendAll(budgets, i) ==
    IF i > Len(budgets) THEN { [ thrown |-> "none", spent |-> 0 ] }
    ELSE IF budgets[i] = 0 THEN SpendAll(budgets, i + 1)
    ELSE UNION { IF o.thrown # "none" THEN { o }
                 ELSE { [ thrown |-> r.thrown, spent |-> o.spent + r.spent ]
                        : r \in SpendAll(budgets, i + 1) }
                 : o \in UpgradeBulk(budgets[i]) }

\* _playFirstTick, lines 249-266
PlayFirstTick(credits) ==
    IF credits = 0 \/ credits < 0
    THEN { [ thrown |-> "none", spent |-> 0 ] }
    ELSE SpendAll(<< CreditsToSpend(credits, FIRST_TICK_BULK_UPGRADE_SCI_PERCENTAGE),
                     CreditsToSpend(credits, FIRST_TICK_BULK_UPGRADE_IND_PERCENTAGE) >>, 1)

\* _playLastTick, lines 268-280
PlayLastTick(credits) ==
    IF credits = 0 \/ credits <= 0
    THEN { [ thrown |-> "none", spent |-> 0 ] }
    ELSE SpendAll(<< CreditsToSpend(credits, LAST_TICK_BULK_UPGRADE_ECO_PERCENTAGE) >>, 1)

\* lines 31-32
IsFirstTick(g) == g.tick % g.productionTicks = 1

IsLastTick(g) == g.tick % g.productionTicks = g.productionTicks - 1

\* mutant of AiAfterSetupStarted: line 27 left out
AiLeftAsItWas(ai) == ai

\* line 27: player.ai = true
AiAfterSetupStarted(ai) == TRUE

\* mutant of ClampCredits: line 46 left out
CreditsLeftAsTheyAre(credits) == credits

\* line 46: Math.max(0, player.credits)
ClampCredits(credits) == IF credits > 0 THEN credits ELSE 0

\* _setupAi, lines 49-93: the maps, the vertex graph and the border vertices
\* are computed, then _computeBorderStarQueue (line 87) throws, so that
\* lines 90 and 92 are not reached
SetupAi(tris, distances) ==
    LET v2t     == BuildVertexIndexToTriangleIndices(tris)
        t2v     == BuildTriangleIndexToVertexIndices(tris)
        border  == ComputeBorderVertices(t2v, v2t)
        scoring == ComputeBorderStarQueueOutcome(border, distances)
    IN  [ v2t |-> v2t, t2v |-> t2v, graph |-> ComputeVertexGraph(v2t, t2v),
          counts |-> SharedCounts(t2v, v2t), bt |-> BorderTrianglesOf(t2v, v2t),
          border |-> border, queue |-> scoring.queue, thrown |-> scoring.thrown ]

\* the owned stars of the player that play is called for
PlayInputs ==
    { inp \in LogisticsInputs : inp.shape.kind # "grid" /\ inp.shape.n <= 4 }

InitPlay ==
    /\ \E inp \in PlayInputs :
          /\ shape = inp.shape
          /\ triangles = inp.triangles
          /\ nearestEnemy \in { [ i \in 1 .. inp.shape.n |-> NoEnemy ],
                                [ i \in 1 .. inp.shape.n |-> 0 ] }
    /\ player \in [ defeated : BOOLEAN, ai : { FALSE }, credits : -1 .. MaxCredits ]
    /\ game \in [ tick : 0 .. MaxTick, productionTicks : 1 .. MaxProductionTicks ]
    /\ history = NoHistory
    /\ pc = "play"
    /\ vertexIndexToTriangleIndices = << >>
    /\ triangleIndexToVertexIndices = << >>
    /\ vertexIndexToConnectedVertexIndices = << >>
    /\ sharedCounts = << >>
    /\ borderTriangles = << >>
    /\ borderVertices = << >>
    /\ globals = NoGlobals
    /\ borderStarQueue = << >>
    /\ unmarkedVertices = << >>
    /\ logisticsGraph = << >>
    /\ carrierLoops = << >>
    /\ item = NoItem
    /\ nextConnection = NoConnection
    /\ startingVertex = -1
    /\ thrown = "none"
    /\ prev = NoPrev

NothingDone == [ thrown |-> "none", spent |-> 0, first |-> 0, last |-> 0 ]

\* lines 26-38: what the body of the try block can do, after the planning
\* pass `setup` if it ran
TryOutcomes(setupRan, setup) ==
    IF setupRan /\ setup.thrown # "none"
    THEN { [ NothingDone EXCEPT !.thrown = setup.thrown ] }
    ELSE IF IsFirstTick(game)
    THEN { [ thrown |-> o.thrown, spent |-> o.spent, first |-> 1, last |-> 0 ]
           : o \in PlayFirstTick(player.credits) }
    ELSE IF IsLastTick(game)
    THEN { [ thrown |-> o.thrown, spent |-> o.spent, first |-> 0, last |-> 1 ]
           : o \in PlayLastTick(player.credits) }
    ELSE { NothingDone }

\* this call of play is the first one, or the first one on the tick after
\* the tick of the call before
CalledOnNextTick == history.calls = 0 \/ game.tick = history.lastTick + 1

\* play, lines 18-47
Play ==
    /\ pc = "play"
    /\ history.calls < MaxCalls
    /\ IF ~ player.defeated
       THEN \* line 20: the error leaves play
            /\ history' = [ history EXCEPT !.calls = @ + 1, !.propagated = "Error",
                                            !.lastTick = game.tick,
                                            !.oncePerTick = @ /\ CalledOnNextTick ]
            /\ UNCHANGED << player, vertexIndexToTriangleIndices,
                            triangleIndexToVertexIndices,
                            vertexIndexToConnectedVertexIndices, sharedCounts,
                            borderTriangles, borderVertices, borderStarQueue, thrown >>
       ELSE LET setupRan == ~ player.ai
                setup    == SetupAi(triangles, nearestEnemy)
            IN  /\ \E o \in TryOutcomes(setupRan, setup) :
                      /\ player' = [ player EXCEPT
                             !.ai = IF setupRan THEN AiAfterSetupStarted(@) ELSE @,
                             !.credits = ClampCredits(@ - o.spent) ]
                      /\ history' = [ history EXCEPT
                             !.calls = @ + 1,
                             !.setups = IF setupRan THEN @ + 1 ELSE @,
                             !.setupThrown = IF setupRan THEN setup.thrown ELSE @,
                             !.firstTicks = @ + o.first,
                             !.lastTicks = @ + o.last,
                             !.raised = o.thrown,
                             !.logged = o.thrown,       \* lines 39-41
                             !.propagated = "none",
                             !.creditsBefore = player.credits,
                             !.lastTick = game.tick,
                             !.oncePerTick = @ /\ CalledOnNextTick ]
                /\ IF setupRan
                   THEN /\ vertexIndexToTriangleIndices' = setup.v2t
                        /\ triangleIndexToVertexIndices' = setup.t2v
                        /\ vertexIndexToConnectedVertexIndices' = setup.graph
                        /\ sharedCounts' = setup.counts
                        /\ borderTriangles' = setup.bt
                        /\ borderVertices' = setup.border
                        /\ borderStarQueue' = setup.queue
                        /\ thrown' = setup.thrown
                   ELSE UNCHANGED << vertexIndexToTriangleIndices,
                                     triangleIndexToVertexIndices,
                                     vertexIndexToConnectedVertexIndices,
                                     sharedCounts, borderTriangles, borderVertices,
                                     borderStarQueue, thrown >>
    /\ UNCHANGED << pc, shape, triangles, globals, unmarkedVertices,
                    logisticsGraph, item, nextConnection, startingVertex, prev,
                    nearestEnemy, carrierLoops, game >>

\* the tick processing of the game moves on to the next tick
AdvanceTick ==
    /\ pc = "play"
    /\ game.tick < MaxTick
    /\ game' = [ game EXCEPT !.tick = @ + 1 ]
    /\ UNCHANGED << pc, shape, triangles, vertexIndexToTriangleIndices,
                    triangleIndexToVertexIndices,
                    vertexIndexToConnectedVertexIndices, sharedCounts,
                    borderTriangles, borderVertices, globals, borderStarQueue,
                    unmarkedVertices, logisticsGraph, item, nextConnection,
                    startingVertex, thrown, prev, nearestEnemy, carrierLoops,
                    player, history >>

NextPlay == Play \/ AdvanceTick

SpecPlay == InitPlay /\ [][NextPlay]_vars

----------------------------------------------------------------------------
(* Claims on play and on the planning pass as a whole *)

\* C13: with an empty triangulation (fewer than three owned points, or
\* collinear or coincident ones) the planning pass raises no error and
\* yields an empty Boundary Set, an empty queue, an empty Logistics Graph
\* and no carrier loop.
C13_DegenerateInputPlansNothing ==
    ( triangles = << >> /\ history.setups > 0 ) =>
        /\ history.setupThrown = "none"
        /\ borderVertices = << >>
        /\ borderStarQueue = << >>
        /\ logisticsGraph = << >>
        /\ carrierLoops = << >>

C20_PlayNeverPropagates ==
    ( player.defeated /\ history.calls > 0 ) =>
        /\ history.propagated = "none"
        /\ history.logged = history.raised
        /\ player.credits >= 0

\* C20 witness: a call of play in which a spending rule threw has returned,
\* after an earlier call in which the planning pass threw.
C20_Witness ==
    /\ player.defeated
    /\ history.calls >= 2
    /\ history.setupThrown # "none"
    /\ history.raised = "UpgradeError"
    /\ history.logged = "UpgradeError"
    /\ history.propagated = "none"
    /\ player.credits > 0

----------------------------------------------------------------------------
(* Claims on the states of the logistics loop *)

NonBoundaryPoints == AllPoints \ ToSet(borderVertices)

Sources(graph) == { e[1] : e \in Edges(graph) }

\* the points that an edge of the graph leads to from p
Successors(graph, p) == { e[2] : e \in { f \in Edges(graph) : f[1] = p } }

\* no point is reached from itself along one edge or more
IsAcyclic(graph) ==
    \A p \in Sources(graph) : p \notin ReachIn(graph, Successors(graph, p), shape.n)

\* C21: unclaimed starts as exactly the points outside the Boundary Set and
\* is, in every later state of the loop, those points minus the destinations
\* of the Logistics Graph; it never grows, and no boundary point is ever a
\* destination.
C21_UnclaimedIsNonBoundaryMinusClaimed ==
    pc # "collect" =>
        /\ thrown # "ReferenceError" \/ Iterated
        /\ Unclaimed(unmarkedVertices) = NonBoundaryPoints \ Destinations(logisticsGraph)
        /\ Destinations(logisticsGraph) \subseteq NonBoundaryPoints
        /\ Iterated => Unclaimed(unmarkedVertices) \subseteq Unclaimed(prev.unmarked)

\* C22: the Logistics Graph is a forest: it has no directed cycle, no source
\* is an unclaimed point (every source is a boundary point or a claimed
\* point), and every point has one incoming edge at most, so that a search
\* along its edges meets no point twice.
C22_LogisticsGraphIsForest ==
    /\ IsAcyclic(logisticsGraph)
    /\ Sources(logisticsGraph) \cap Unclaimed(unmarkedVertices) = {}
    /\ \A e \in Edges(logisticsGraph), f \in Edges(logisticsGraph) :
          e[2] = f[2] => e[1] = f[1]

\* C22 witness: a graph with a path of two edges and a second tree.
C22_Witness ==
    /\ \E e \in Edges(logisticsGraph), f \in Edges(logisticsGraph) : e[2] = f[1]
    /\ \E p \in Sources(logisticsGraph), q \in Sources(logisticsGraph) :
          /\ p # q
          /\ p \notin Destinations(logisticsGraph)
          /\ q \notin Destinations(logisticsGraph)
    /\ nextConnection.kind = "connection"

\* C23: every edge of the Logistics Graph joins two points that share a
\* triangle; an edge found by the transitive search has as source the point
\* reached through the graph, not the point the search started from.
C23_EdgesJoinAdjacentPoints ==
    /\ \A e \in Edges(logisticsGraph) : e[2] \in AdjacentPoints(e[1])
    /\ nextConnection.kind = "connection" =>
          /\ nextConnection.from \in Reach(prev.graph, startingVertex)
          /\ nextConnection.to \in AdjacentPoints(nextConnection.from)
          /\ << nextConnection.from, nextConnection.to >> \in Edges(logisticsGraph)

\* C23 witness: an edge found by the transitive search, whose destination
\* shares no triangle with the starting point.
C23_Witness ==
    /\ nextConnection.kind = "connection"
    /\ nextConnection.from # startingVertex
    /\ nextConnection.to \notin AdjacentPoints(startingVertex)
    /\ nextConnection.from \in Destinations(prev.graph)

----------------------------------------------------------------------------
(* Claims on the spending rules *)

\* play has been called once on every tick since its first call, for a
\* whole number of production cycles
WholeCyclesPlayed ==
    /\ player.defeated
    /\ history.oncePerTick
    /\ history.calls > 0
    /\ history.calls % game.productionTicks = 0

\* C25: when play is called once per tick for a player under AI control
\* with positive credits, then in every production cycle of productionTicks
\* consecutive ticks, whatever productionTicks >= 1 is, the first-tick rule
\* runs on exactly one tick and the last-tick rule runs on exactly one tick.
C25_EachRuleOncePerCycle ==
    ( WholeCyclesPlayed /\ player.credits > 0 ) =>
        /\ history.firstTicks = history.calls \div game.productionTicks
        /\ history.lastTicks = history.calls \div game.productionTicks

----------------------------------------------------------------------------
(* Specification SpecGame: join, quit and concedeDefeat of game.ts on one
   game document.  game holds the fields of the document that these
   methods read and write; history holds the last call and its outcome.
   Nothing in game.ts sets player.afk or adds to game.afkers, so both stay
   as the game was created with them. *)

\* a null reference to a user, and a date that is not set
NoUser == 0
NoDate == 0

Users == 1 .. MaxUsers

\* the outcomes of the validations of join whose inputs are strings, stars
\* and purchases of the caller: each may pass or fail on any call.  join
\* stops at the first validation that fails, so the calls on which one of
\* them fails at most have every outcome that join has.
ExternalChecks ==
    { ext \in [ passwordMatch : BOOLEAN, unestablished : BOOLEAN,
                purchased : BOOLEAN, hasStars : BOOLEAN,
                aliasTaken : BOOLEAN, usernameExists : BOOLEAN ] :
        Cardinality({ failed \in { "password", "established", "avatar",
                                   "stars", "alias", "username" } :
            \/ failed = "password" /\ ~ ext.passwordMatch
            \/ failed = "established" /\ ext.unestablished
            \/ failed = "avatar" /\ ~ ext.purchased
            \/ failed = "stars" /\ ~ ext.hasStars
            \/ failed = "alias" /\ ext.aliasTaken
            \/ failed = "username" /\ ext.usernameExists }) <= 1 }

\* a slot of a game that nobody has joined
OpenSlot(id) ==
    [ _id |-> id, userId |-> NoUser, isOpenSlot |-> TRUE,
      defeated |-> FALSE, afk |-> FALSE, hasFilledAfkSlot |-> FALSE ]

NewGame(type, gameType, playerLimit) ==
    [ state |-> [ startDate |-> NoDate, endDate |-> NoDate,
                  lastTickDate |-> NoDate, players |-> 0, paused |-> TRUE ],
      settings |-> [ general |-> [ playerLimit |-> playerLimit, type |-> type ],
                     gameTime |-> [ gameType |-> gameType, startDelay |-> 1 ] ],
      quitters |-> << >>,
      afkers |-> << >>,
      galaxy |-> [ players |-> [ id \in 1 .. playerLimit |-> OpenSlot(id) ] ],
      deleted |-> FALSE ]

NoCall ==
    [ calls |-> 0, op |-> "none", userId |-> NoUser, playerId |-> 0,
      raised |-> "none", message |-> "", returned |-> FALSE,
      conceded |-> {}, quitEarly |-> {} ]

\* moment().utc(): every call is made at a later time than the one before
Now == history.calls + 1

\* gameTypeService and gameStateService
IsTutorialGame(g) == g.settings.general.type = "tutorial"

IsNewPlayerGame(g) == g.settings.general.type = "new_player_rt"

IsRealTimeGame(g) == g.settings.gameTime.gameType = "realTime"

IsInProgress(g) == g.state.startDate # NoDate /\ g.state.endDate = NoDate

\* gameStateService.updateStatePlayerCount: the slots held by a user
UpdateStatePlayerCount(g) ==
    [ g EXCEPT !.state.players =
        Cardinality({ i \in DOMAIN g.galaxy.players :
                        g.galaxy.players[i].userId # NoUser }) ]

\* playerService.setPlayerAsDefeated
SetPlayerAsDefeated(g, playerId, openSlot) ==
    [ g EXCEPT !.galaxy.players[playerId].isOpenSlot = openSlot,
               !.galaxy.players[playerId].defeated = TRUE ]

\* playerService.resetPlayerForGameStart
ResetPlayerForGameStart(g, playerId) ==
    [ g EXCEPT !.galaxy.players[playerId] = OpenSlot(playerId) ]

\* game.quitters.find(x => x.toString() === userId.toString())
IsQuitterNever(quitters, userId) == FALSE

IsQuitter(quitters, userId) ==
    \E i \in DOMAIN quitters : quitters[i] = userId

\* game.afkers.find(x => x.toString() === userId.toString())
IsAfker(afkers, userId) ==
    \E i \in DOMAIN afkers : afkers[i] = userId

\* game.galaxy.players.find(x => x.userId && x.userId.toString() === ...):
\* the index of the first player of the user, 0 when there is none
Existing(g, userId) ==
    LET found == { i \in DOMAIN g.galaxy.players :
                     g.galaxy.players[i].userId = userId }
    IN  IF userId = NoUser \/ found = {} THEN 0
        ELSE CHOOSE i \in found : \A j \in found : i <= j

\* the validations of join in the order of the code: the message of the
\* ValidationError that join throws, "" when it throws none
JoinRefusal(g, userId, playerId, ext) ==
    LET players == g.galaxy.players
        existing == Existing(g, userId)
        found == playerId \in DOMAIN players
        p == players[playerId]
        isAfker == IsAfker(g.afkers, userId)
        isRejoiningAfkSlot ==
            isAfker /\ p.afk /\ p.userId # NoUser /\ p.userId = userId
    IN  IF g.state.endDate # NoDate
            THEN "The game has already finished."
        ELSE IF ~ ext.passwordMatch
            THEN "The password is invalid."
        ELSE IF ext.unestablished /\ ~ IsNewPlayerGame(g)
            THEN "You must complete a New Player game."
        ELSE IF ~ ext.purchased
            THEN "You have not purchased the selected avatar."
        ELSE IF IsQuitter(g.quitters, userId)
            THEN "You cannot rejoin this game."
        ELSE IF existing # 0 /\ ~ players[existing].afk
            THEN "You are already participating in this game."
        ELSE IF ~ found
            THEN "The player is not participating in this game."
        ELSE IF ~ p.isOpenSlot
            THEN "The player slot is not open to be filled."
        ELSE IF p.afk /\ isAfker /\ p.userId # NoUser /\ p.userId # userId
            THEN "You can only rejoin this game in your own slot."
        ELSE IF ~ ext.hasStars
            THEN "Cannot fill this slot, the player does not own any stars."
        ELSE IF ext.aliasTaken /\ ~ isRejoiningAfkSlot
            THEN "The alias has already been taken by another player."
        ELSE IF ext.usernameExists
            THEN "The alias is the username of another player."
        ELSE ""

\* game.state.players === game.settings.general.playerLimit
GameIsFullAlways(g) == TRUE

GameIsFull(g) == g.state.players = g.settings.general.playerLimit

\* the start date of a game that fills up now
StartDate(g, now) ==
    IF IsRealTimeGame(g) THEN now + g.settings.gameTime.startDelay ELSE now

\* assignPlayerToUser: the game after the call and the value returned
AssignPlayerToUser(g, playerId, userId, now) ==
    LET p == g.galaxy.players[playerId]
        isAfker == userId # NoUser /\ IsAfker(g.afkers, userId)
        isFillingAfkSlot == IsInProgress(g) /\ p.afk
        isRejoiningOwnAfkSlot ==
            isFillingAfkSlot /\ isAfker /\ p.userId # NoUser /\ p.userId = userId
        hasFilledOtherPlayerAfkSlot == isFillingAfkSlot /\ ~ isRejoiningOwnAfkSlot
        assigned ==
            [ g EXCEPT !.galaxy.players[playerId] =
                [ _id |-> playerId, userId |-> userId, isOpenSlot |-> FALSE,
                  defeated |-> FALSE, afk |-> FALSE,
                  hasFilledAfkSlot |-> hasFilledOtherPlayerAfkSlot ] ]
        counted == UpdateStatePlayerCount(assigned)
        gameIsFull == counted.state.startDate = NoDate /\ GameIsFull(counted)
        startDate == StartDate(counted, now)
    IN  [ gameIsFull |-> gameIsFull,
          game |-> IF gameIsFull
                   THEN [ counted EXCEPT !.state.paused = FALSE,
                                         !.state.startDate = startDate,
                                         !.state.lastTickDate = startDate ]
                   ELSE counted ]

\* the slots of the game held by a user: quit and concedeDefeat are called
\* with the player of the user who makes the request
PlayersOfUsers ==
    { i \in DOMAIN game.galaxy.players : game.galaxy.players[i].userId # NoUser }

CallOf(op, userId, playerId) ==
    [ history EXCEPT !.calls = @ + 1, !.op = op, !.userId = userId,
                     !.playerId = playerId, !.raised = "none",
                     !.message = "", !.returned = FALSE ]

Rejected(call, message) ==
    [ call EXCEPT !.raised = "ValidationError", !.message = message ]

RestUnchanged ==
    UNCHANGED << pc, shape, triangles, vertexIndexToTriangleIndices,
                 triangleIndexToVertexIndices,
                 vertexIndexToConnectedVertexIndices, sharedCounts,
                 borderTriangles, borderVertices, globals, borderStarQueue,
                 unmarkedVertices, logisticsGraph, item, nextConnection,
                 startingVertex, thrown, prev, nearestEnemy, carrierLoops,
                 player >>

InitGame ==
    /\ game \in { NewGame(type, gameType, playerLimit) :
                    type \in { "tutorial", "new_player_rt", "custom" },
                    gameType \in { "realTime", "turnBased" },
                    playerLimit \in 2 .. MaxPlayerLimit }
    /\ history = NoCall
    /\ pc = "game"
    /\ shape = NoShape
    /\ triangles = << >>
    /\ vertexIndexToTriangleIndices = << >>
    /\ triangleIndexToVertexIndices = << >>
    /\ vertexIndexToConnectedVertexIndices = << >>
    /\ sharedCounts = << >>
    /\ borderTriangles = << >>
    /\ borderVertices = << >>
    /\ globals = NoGlobals
    /\ borderStarQueue = << >>
    /\ unmarkedVertices = << >>
    /\ logisticsGraph = << >>
    /\ item = NoItem
    /\ nextConnection = NoConnection
    /\ startingVertex = -1
    /\ thrown = "none"
    /\ prev = NoPrev
    /\ nearestEnemy = << >>
    /\ carrierLoops = << >>
    /\ player = NoPlayer

\* a call can be made on a game that is still stored
Callable ==
    /\ pc = "game"
    /\ ~ game.deleted
    /\ history.calls < MaxCalls

\* join, lines 128-256
Join ==
    /\ Callable
    /\ \E userId \in Users, playerId \in 0 .. Len(game.galaxy.players),
          ext \in ExternalChecks :
          LET call == CallOf("join", userId, playerId)
              refusal == JoinRefusal(game, userId, playerId, ext)
              assigned == AssignPlayerToUser(game, playerId, userId, Now)
          IN  IF refusal # ""
              THEN /\ history' = Rejected(call, refusal)
                   /\ UNCHANGED game
              ELSE /\ game' = assigned.game
                   /\ history' = [ call EXCEPT !.returned = assigned.gameIsFull ]
    /\ RestUnchanged

\* quit, lines 325-369
Quit ==
    /\ Callable
    /\ \E playerId \in PlayersOfUsers :
          LET p == game.galaxy.players[playerId]
              call == CallOf("quit", p.userId, playerId)
              logged ==
                  IF p.userId # NoUser /\ ~ IsNewPlayerGame(game)
                  THEN [ game EXCEPT !.quitters = Append(@, p.userId) ]
                  ELSE game
          IN  IF game.state.startDate # NoDate
              THEN /\ history' = Rejected(call, "Cannot quit a game that has started.")
                   /\ UNCHANGED game
              ELSE IF game.state.endDate # NoDate
              THEN /\ history' = Rejected(call, "Cannot quit a game that has finished.")
                   /\ UNCHANGED game
              ELSE IF IsTutorialGame(game)
              THEN /\ game' = [ game EXCEPT !.deleted = TRUE ]
                   /\ history' = [ call EXCEPT !.quitEarly = @ \cup { p.userId } ]
              ELSE /\ game' = UpdateStatePlayerCount(
                                  ResetPlayerForGameStart(logged, playerId))
                   /\ history' = [ call EXCEPT !.quitEarly = @ \cup { p.userId } ]
    /\ RestUnchanged

\* player.defeated, line 372
IsDefeatedNever(p) == FALSE

IsDefeated(p) == p.defeated

\* concedeDefeat, lines 371-420
ConcedeDefeat ==
    /\ Callable
    /\ \E playerId \in PlayersOfUsers, openSlot \in BOOLEAN :
          LET p == game.galaxy.players[playerId]
              call == CallOf("concedeDefeat", p.userId, playerId)
              logged == [ game EXCEPT !.quitters = Append(@, p.userId) ]
              defeated == SetPlayerAsDefeated(logged, playerId, openSlot)
          IN  IF IsDefeated(p)
              THEN /\ history' = Rejected(call, "The player has already been defeated.")
                   /\ UNCHANGED game
              ELSE IF game.state.startDate = NoDate
              THEN /\ history' = Rejected(call,
                          "Cannot concede defeat in a game that has not yet started.")
                   /\ UNCHANGED game
              ELSE IF game.state.endDate # NoDate
              THEN /\ history' = Rejected(call,
                          "Cannot concede defeat in a game that has finished.")
                   /\ UNCHANGED game
              ELSE IF IsTutorialGame(game)
              THEN /\ game' = [ game EXCEPT !.deleted = TRUE ]
                   /\ history' = [ call EXCEPT !.conceded = @ \cup { p.userId } ]
              ELSE /\ game' = [ defeated EXCEPT !.state.players = @ - 1 ]
                   /\ history' = [ call EXCEPT !.conceded = @ \cup { p.userId } ]
    /\ RestUnchanged

\* the tick processing ends a game that is in progress
EndGame ==
    /\ Callable
    /\ IsInProgress(game)
    /\ game' = [ game EXCEPT !.state.endDate = Now ]
    /\ history' = CallOf("endGame", NoUser, 0)
    /\ RestUnchanged

NextGame == Join \/ Quit \/ ConcedeDefeat \/ EndGame

SpecGame == InitGame /\ [][NextGame]_vars

----------------------------------------------------------------------------
(* Claims on joining, quitting and conceding *)

\* the step is a call of the operation
Called(op) ==
    /\ history'.calls = history.calls + 1
    /\ history'.op = op

\* C26: after a user has conceded defeat in a game, or has quit it before
\* it started (the game not being a new-player game), every later join by
\* that user, to whichever slot, raises a validation error and assigns no
\* slot.
C26_QuittersCannotRejoin ==
    [][ ( /\ Called("join")
          /\ \/ history'.userId \in history.conceded
             \/ history'.userId \in history.quitEarly /\ ~ IsNewPlayerGame(game) )
        => /\ history'.raised = "ValidationError"
           /\ game'.galaxy.players = game.galaxy.players ]_vars

\* C26 witness: a user who conceded defeat asks for a slot that is open and
\* is told that they cannot rejoin.
C26_Witness ==
    /\ history.op = "join"
    /\ history.userId \in history.conceded
    /\ history.playerId \in DOMAIN game.galaxy.players
    /\ game.galaxy.players[history.playerId].isOpenSlot
    /\ history.message = "You cannot rejoin this game."

\* C27: quit succeeds only while the game has no start date, and
\* concedeDefeat succeeds only for a player not yet defeated in a game that
\* has started and not ended; a rejected call raises a validation error and
\* leaves the quitters list, the active-player count and the player's state
\* unchanged, and a successful concedeDefeat on a game that stays stored
\* lowers the count by one and leaves the player defeated, so that the
\* defeat of one player lowers the count once at most.
C27_QuitAndConcedeGuards ==
    [][ LET p == game.galaxy.players[history'.playerId]
            rejected == /\ history'.raised = "ValidationError"
                        /\ game'.quitters = game.quitters
                        /\ game'.state.players = game.state.players
                        /\ game'.galaxy.players = game.galaxy.players
        IN  /\ Called("quit") =>
                IF history'.raised = "none"
                THEN game.state.startDate = NoDate
                ELSE rejected
            /\ Called("concedeDefeat") =>
                IF history'.raised = "none"
                THEN /\ ~ p.defeated
                     /\ game.state.startDate # NoDate
                     /\ game.state.endDate = NoDate
                     /\ \/ game'.deleted
                        \/ /\ game'.state.players = game.state.players - 1
                           /\ game'.galaxy.players[history'.playerId].defeated
                ELSE rejected ]_vars

\* C27 witness: a player who has conceded defeat concedes again and is
\* rejected.
C27_Witness ==
    /\ history.op = "concedeDefeat"
    /\ history.userId \in history.conceded
    /\ history.message = "The player has already been defeated."
    /\ game.galaxy.players[history.playerId].defeated

\* C28: the start date of a game changes only in a join; a join on a game
\* that has not started sets the start date exactly when it succeeds and
\* leaves the active-player count equal to the player limit, and then it
\* also unpauses the game; a join on a game that has started leaves the
\* start date as it is.
C28_StartDateSetByFillingJoin ==
    [][ /\ game'.state.startDate # game.state.startDate => Called("join")
        /\ Called("join") =>
              IF game.state.startDate = NoDate
              THEN /\ game'.state.startDate # NoDate
                       <=> /\ history'.raised = "none"
                           /\ game'.state.players = game.settings.general.playerLimit
                   /\ game'.state.startDate # NoDate => ~ game'.state.paused
              ELSE game'.state.startDate = game.state.startDate ]_vars

\* C28 witness: a user joins a game that started earlier, in the slot that
\* a player who conceded defeat left open.
C28_Witness ==
    /\ history.op = "join"
    /\ history.raised = "none"
    /\ ~ history.returned
    /\ game.state.startDate # NoDate
    /\ game.state.startDate < history.calls
    /\ ~ game.state.paused
    /\ history.conceded # {}

============================================================================
